---------------------------- MODULE Spec2Model ----------------------------
(***************************************************************************)
(* A model of the gradia customer generator and its document renderers     *)
(* (src/customer-generator/src): the path resolver, the value transform,   *)
(* the field mapper, the passport template selector, the two batch         *)
(* drivers and the record generator.                                       *)
(*                                                                         *)
(* Python strings are sequences of atoms.  An atom is a TLA+ string that   *)
(* stands for one character or for a non-empty word holding no "/" (a key  *)
(* such as "id_documents"); "/" is always an atom of its own, so the path  *)
(* operations, which only look for "/", act on atoms as they act on        *)
(* characters.  Python values are tagged records [kind, val].              *)
(***************************************************************************)
EXTENDS Integers, Sequences, FiniteSets, TLC

VARIABLES
    mode,        \* which program runs: "resolve", "render", "batch" or "gen"
    rdoc,        \* _resolve_pointer: the doc argument
    rptr,        \* _resolve_pointer: the pointer argument
    rres,        \* _resolve_pointer: the outcome, or NotRun
    today,       \* the current date <<year, month, day>> (date.today())
    driver,      \* which batch driver runs: "nric" or "passport"
    batch,       \* the records of the input JSONL file, in file order
    cfg,         \* the Rendering Config file's content (--schema)
    tmpl,        \* the templates root: template name -> "ok" or "broken"
    files,       \* the output folder: file name -> rendered content
    pos,         \* how many records main's loop has consumed
    out_path,    \* passport main's local out_path: Unbound, None or a path
    log,         \* the status lines the driver printed: [rec, status]
    results,     \* what each render call did: "rendered", "skipped", "failed"
    last,        \* the outcome of the latest render call
    cfgloads,    \* how many times load_json read the Rendering Config
    pc,          \* main's position: "loop", "done" or "crashed"
    constraints, \* gen_customer: the constraints document
    record       \* gen_customer: the outcome, or NotRun

rvars == <<rdoc, rptr, rres>>
bvars == <<driver, batch, cfg, tmpl, files, pos, out_path, log, results, last,
           cfgloads, pc>>
gvars == <<constraints, record>>
vars == <<mode, rdoc, rptr, rres, today, driver, batch, cfg, tmpl, files, pos,
          out_path, log, results, last, cfgloads, pc, constraints, record>>

---------------------------------------------------------------------------
(* Python values and outcomes *)

Dict(f) == [kind |-> "dict", val |-> f]
Str(s) == [kind |-> "str", val |-> s]
NoneVal == [kind |-> "none", val |-> <<>>]

\* The outcome of a call: a returned value, or a raised exception.
Ret(v) == [exc |-> "none", val |-> v]
Raise(e) == [exc |-> e, val |-> NoneVal]
NotRun == [exc |-> "notrun", val |-> NoneVal]

\* Every mapping from a subset of keys into vals.
DictsOver(keys, vals) == {Dict(f) : f \in UNION {[S -> vals] : S \in SUBSET keys}}

---------------------------------------------------------------------------
(* str.strip(chars) and str.split(sep), for a one-atom separator *)

RECURSIVE LStrip(_, _)
LStrip(s, c) == IF s # <<>> /\ Head(s) = c THEN LStrip(Tail(s), c) ELSE s

RECURSIVE RStrip(_, _)
RStrip(s, c) ==
    IF s # <<>> /\ s[Len(s)] = c THEN RStrip(SubSeq(s, 1, Len(s) - 1), c) ELSE s

Strip(s, c) == RStrip(LStrip(s, c), c)

\* str.split(c) always returns at least one part; an empty string gives [""].
RECURSIVE Split(_, _)
Split(s, c) ==
    IF \E i \in 1..Len(s) : s[i] = c
    THEN LET i == CHOOSE k \in 1..Len(s) : s[k] = c /\ \A j \in 1..(k - 1) : s[j] # c
         IN <<SubSeq(s, 1, i - 1)>> \o Split(SubSeq(s, i + 1, Len(s)), c)
    ELSE <<s>>

---------------------------------------------------------------------------
(* Path Resolver: _resolve_pointer *)

\* The loop over the parts: index into cur, or raise KeyError.
RECURSIVE WalkParts(_, _)
WalkParts(cur, parts) ==
    IF parts = <<>> THEN Ret(cur)
    ELSE IF cur.kind = "dict" /\ Head(parts) \in DOMAIN cur.val
         THEN WalkParts(cur.val[Head(parts)], Tail(parts))
         ELSE Raise("KeyError")

\* A plausible slip: a missing component returns the value reached so far.
ResolvePointerPartial(doc, pointer) ==
    LET RECURSIVE W(_, _)
        W(cur, parts) ==
            IF parts = <<>> THEN Ret(cur)
            ELSE IF cur.kind = "dict" /\ Head(parts) \in DOMAIN cur.val
                 THEN W(cur.val[Head(parts)], Tail(parts))
                 ELSE Ret(cur)
    IN IF pointer = <<>> \/ pointer[1] # "/" THEN Raise("ValueError")
       ELSE W(doc, Split(Strip(pointer, "/"), "/"))

_resolve_pointer(doc, pointer) ==
    IF pointer = <<>> \/ pointer[1] # "/" THEN Raise("ValueError")
    ELSE WalkParts(doc, Split(Strip(pointer, "/"), "/"))

---------------------------------------------------------------------------
(* Dates: datetime.fromisoformat, date.isoformat and strftime *)

IsLeap(y) == (y % 4 = 0 /\ y % 100 # 0) \/ y % 400 = 0

DaysInMonth(y, m) ==
    IF m = 2 THEN (IF IsLeap(y) THEN 29 ELSE 28)
    ELSE IF m \in {4, 6, 9, 11} THEN 30 ELSE 31

ValidDate(y, m, d) == y \in 1..9999 /\ m \in 1..12 /\ d \in 1..DaysInMonth(y, m)

Digits == <<"0", "1", "2", "3", "4", "5", "6", "7", "8", "9">>
IsDigit(c) == \E n \in 1..10 : Digits[n] = c
DigitVal(c) == (CHOOSE n \in 1..10 : Digits[n] = c) - 1

\* The number a digit string writes.
RECURSIVE Num(_)
Num(s) == IF s = <<>> THEN 0 ELSE 10 * Num(SubSeq(s, 1, Len(s) - 1)) + DigitVal(s[Len(s)])

\* n written in at least w digits, zero-padded ("%04d", "%02d").
RECURSIVE Pad(_, _)
Pad(n, w) ==
    IF w <= 1 /\ n < 10 THEN <<Digits[n + 1]>>
    ELSE Pad(n \div 10, w - 1) \o <<Digits[(n % 10) + 1]>>

\* date.isoformat(): YYYY-MM-DD.
IsoFormat(d) == Pad(d[1], 4) \o <<"-">> \o Pad(d[2], 2) \o <<"-">> \o Pad(d[3], 2)

\* datetime.fromisoformat on a string of the model: only the ten-character
\* form YYYY-MM-DD of a date of the calendar parses; anything else raises.
FromIsoFormat(s) ==
    LET shaped == /\ Len(s) = 10
                  /\ s[5] = "-" /\ s[8] = "-"
                  /\ \A k \in {1, 2, 3, 4, 6, 7, 9, 10} : IsDigit(s[k])
        y == Num(SubSeq(s, 1, 4))
        m == Num(SubSeq(s, 6, 7))
        d == Num(SubSeq(s, 9, 10))
    IN IF shaped /\ ValidDate(y, m, d)
       THEN [ok |-> TRUE, date |-> <<y, m, d>>]
       ELSE [ok |-> FALSE, date |-> <<>>]

\* dt.strftime(pattern): %d, %m and %Y are replaced, other text is copied.
RECURSIVE Strftime(_, _)
Strftime(d, pattern) ==
    IF pattern = <<>> THEN <<>>
    ELSE LET a == Head(pattern)
             out == IF a = "%Y" THEN Pad(d[1], 4)
                    ELSE IF a = "%m" THEN Pad(d[2], 2)
                    ELSE IF a = "%d" THEN Pad(d[3], 2)
                    ELSE <<a>>
         IN out \o Strftime(d, Tail(pattern))

---------------------------------------------------------------------------
(* Value Transform: _apply_format and _compute_func *)

\* Python truthiness of the values of the model: `not v`.
Falsy(v) ==
    \/ v.kind \in {"none", "absent"}
    \/ v.kind = "dict" /\ DOMAIN v.val = {}
    \/ v.kind = "str" /\ v.val = <<>>

StartsWith(s, prefix) ==
    Len(s) >= Len(prefix) /\ SubSeq(s, 1, Len(prefix)) = prefix

\* A plausible slip: a date that does not parse formats to an empty string.
ApplyFormatBlank(value, fmt) ==
    IF Falsy(fmt) \/ value.kind # "str" THEN value
    ELSE IF StartsWith(fmt.val, <<"date:">>)
         THEN LET dt == FromIsoFormat(value.val)
              IN IF dt.ok THEN Str(Strftime(dt.date, Strip(Tail(fmt.val), " ")))
                 ELSE Str(<<>>)
         ELSE value

_apply_format(value, fmt) ==
    IF Falsy(fmt) \/ value.kind # "str" THEN value
    ELSE IF StartsWith(fmt.val, <<"date:">>)
         THEN LET dt == FromIsoFormat(value.val)
              IN IF dt.ok THEN Str(Strftime(dt.date, Strip(Tail(fmt.val), " ")))
                 ELSE value
         ELSE value

_compute_func(name, now) ==
    IF name = <<"today">> THEN Ret(Str(IsoFormat(now))) ELSE Raise("ValueError")

---------------------------------------------------------------------------
(* Field Mapper: the loop over the field declarations *)

\* d[k] = v on a dict held as a function.
Put(f, k, v) == [x \in (DOMAIN f) \cup {k} |-> IF x = k THEN v ELSE f[x]]

\* d.get(k, default)
Get(d, k, default) == IF k \in DOMAIN d.val THEN d.val[k] ELSE default

\* One declaration's value: a path lookup, a computed value, or an error.
SourceValue(customer, source, now) ==
    IF source.kind # "str" THEN Raise("AttributeError")
    ELSE IF StartsWith(source.val, <<"/">>) THEN _resolve_pointer(customer, source.val)
    ELSE IF StartsWith(source.val, <<"func:">>) THEN _compute_func(Tail(source.val), now)
    ELSE Raise("ValueError")

\* A plausible slip: a declaration whose source fails is skipped.
RECURSIVE MapFieldsSkipping(_, _, _, _)
MapFieldsSkipping(customer, decls, fields, now) ==
    IF decls = <<>> THEN [exc |-> "none", fields |-> fields]
    ELSE LET fld == Head(decls)
             v == SourceValue(customer, fld.source, now)
         IN IF v.exc # "none"
            THEN MapFieldsSkipping(customer, Tail(decls), fields, now)
            ELSE MapFieldsSkipping(customer, Tail(decls),
                     Put(fields, fld.key, _apply_format(v.val, fld.format)), now)

RECURSIVE MapFieldsLoop(_, _, _, _)
MapFieldsLoop(customer, decls, fields, now) ==
    IF decls = <<>> THEN [exc |-> "none", fields |-> fields]
    ELSE LET fld == Head(decls)
             v == SourceValue(customer, fld.source, now)
         IN IF v.exc # "none"
            THEN [exc |-> v.exc, fields |-> fields]
            ELSE MapFieldsLoop(customer, Tail(decls),
                     Put(fields, fld.key, _apply_format(v.val, fld.format)), now)

MapFields(customer, decls, fields, now) == MapFieldsLoop(customer, decls, fields, now)

---------------------------------------------------------------------------
(* Document Renderer: render_nric_html and render_passport_html *)

Absent == [kind |-> "absent", val |-> <<>>]
List(s) == [kind |-> "list", val |-> s]

\* env.get_template(name): the template, or the error jinja2 raises.
GetTemplate(templates, name) ==
    IF name \notin DOMAIN templates THEN "TemplateNotFound"
    ELSE IF templates[name] = "ok" THEN "ok" ELSE "TemplateSyntaxError"

\* What a render call did: the exception it raised or "none", the value it
\* returned, the output folder afterwards, the templates it asked jinja2
\* for, in order, and how often it read the Rendering Config.
Outcome(exc, val, fs, tried, loads) ==
    [exc |-> exc, val |-> val, files |-> fs, tried |-> tried, loads |-> loads]

\* template.render(fields=fields, customer=customer).  Rendering a loaded
\* template and writing the file are taken to succeed.
Html(name, fields, customer) ==
    [template |-> name, fields |-> fields, customer |-> customer]

render_nric_html(customer, config, templates, fs, now) ==
    LET template_rel == config.template
        fields_decl == config.fields
        m == MapFields(customer, fields_decl.val, <<>>, now)
        out_name == <<"nric_">> \o customer.val[<<"customer_id">>].val \o <<".html">>
    IN IF template_rel.kind = "absent" \/ fields_decl.kind = "absent"
       THEN Outcome("KeyError", NoneVal, fs, <<>>, 1)
       ELSE IF m.exc # "none" THEN Outcome(m.exc, NoneVal, fs, <<>>, 1)
       ELSE IF GetTemplate(templates, template_rel.val) # "ok"
       THEN Outcome(GetTemplate(templates, template_rel.val), NoneVal, fs,
                    <<template_rel.val>>, 1)
       ELSE Outcome("none", Str(out_name),
                    Put(fs, out_name, Html(template_rel.val, m.fields, customer)),
                    <<template_rel.val>>, 1)

\* a or b
Or(a, b) == IF Falsy(a) THEN b ELSE a

AllowList == {<<"SG">>, <<"MY">>, <<"CN">>, <<"IN">>}

\* A plausible slip: a textual nationality is used whether allowed or not.
PassportCountryNoDefault(nationality) ==
    IF nationality.kind = "str" THEN nationality.val ELSE <<"SG">>

\* nationality if nationality in {"SG", "MY", "CN", "IN"} else "SG"
PassportCountry(nationality) ==
    IF nationality.kind = "str" /\ nationality.val \in AllowList
    THEN nationality.val ELSE <<"SG">>

\* A plausible slip: only a missing passport key skips, an empty one renders.
HasPassportIfPresent(customer) ==
    Get(Get(customer, <<"id_documents">>, Dict(<<>>)), <<"passport">>, NoneVal).kind # "none"

\* passport = customer.get("id_documents", {}).get("passport"); passport
HasPassport(customer) ==
    ~Falsy(Get(Get(customer, <<"id_documents">>, Dict(<<>>)), <<"passport">>, NoneVal))

render_passport_html(customer, config, templates, fs, now) ==
    LET template_rel == config.template
        fields_decl == config.fields
        m == MapFields(customer, fields_decl.val, <<>>, now)
        fields == Dict(m.fields)
        nationality ==
            Or(Or(Get(fields, <<"nationality">>, NoneVal),
                  Get(fields, <<"country">>, NoneVal)),
               Get(Get(customer, <<"demographics">>, Dict(<<>>)), <<"country">>, NoneVal))
        passport_template == <<"passport_">> \o PassportCountry(nationality) \o <<".html">>
        out_name == <<"passport_">> \o customer.val[<<"customer_id">>].val \o <<".html">>
    IN IF ~HasPassport(customer) THEN Outcome("none", NoneVal, fs, <<>>, 0)
       ELSE IF template_rel.kind = "absent" \/ fields_decl.kind = "absent"
       THEN Outcome("KeyError", NoneVal, fs, <<>>, 1)
       ELSE IF m.exc # "none" THEN Outcome(m.exc, NoneVal, fs, <<>>, 1)
       ELSE IF nationality.kind \in {"dict", "list"}
       THEN Outcome("TypeError", NoneVal, fs, <<>>, 1)
       ELSE IF GetTemplate(templates, passport_template) = "ok"
       THEN Outcome("none", Str(out_name),
                    Put(fs, out_name, Html(passport_template, m.fields, customer)),
                    <<passport_template>>, 1)
       ELSE IF GetTemplate(templates, template_rel.val) # "ok"
       THEN Outcome(GetTemplate(templates, template_rel.val), NoneVal, fs,
                    <<passport_template, template_rel.val>>, 1)
       ELSE Outcome("none", Str(out_name),
                    Put(fs, out_name, Html(template_rel.val, m.fields, customer)),
                    <<passport_template, template_rel.val>>, 1)

---------------------------------------------------------------------------
(* The resolver's inputs *)

MaxPtrLen == 5

PtrAtoms == {"/", "a", "b"}
Pointers == UNION {[1..n -> PtrAtoms] : n \in 0..MaxPtrLen}

RKeys == {<<"a">>, <<>>}
RLeaves == {Str(<<"x">>), NoneVal}
RDocs1 == DictsOver(RKeys, RLeaves)
RDocs == DictsOver(RKeys, RLeaves \cup RDocs1)

RIdle == /\ rdoc = NoneVal
         /\ rptr = <<>>
         /\ rres = NotRun

---------------------------------------------------------------------------
(* Batch Driver: main of render_nric.py and of render_passport.py *)

Unbound == [kind |-> "unbound", val |-> <<>>]

Line(rec, status) == [rec |-> rec, status |-> status]

\* What a render call did to its record.
StatusOf(r) ==
    IF r.exc # "none" THEN "failed"
    ELSE IF r.val.kind = "none" THEN "skipped" ELSE "rendered"

\* One turn of render_nric.main's loop: the call, and the warning when it raised.
NricStep ==
    /\ mode \in {"render", "batch"}
    /\ driver = "nric"
    /\ pc = "loop"
    /\ pos < Len(batch)
    /\ LET r == render_nric_html(batch[pos + 1], cfg, tmpl, files, today)
       IN /\ last' = r
          /\ files' = r.files
          /\ cfgloads' = cfgloads + r.loads
          /\ results' = Append(results, StatusOf(r))
          /\ log' = IF r.exc # "none" THEN Append(log, Line(pos + 1, "failed")) ELSE log
    /\ pos' = pos + 1
    /\ UNCHANGED <<mode, rvars, gvars, today, driver, batch, cfg, tmpl, out_path, pc>>

\* What follows the call in render_passport.main: the except clause's
\* warning, then the test of the local out_path, which is still unbound when
\* no earlier call returned and holds an earlier record's value otherwise.
PassportAfterCall(r, bound) ==
    LET caught == r.exc # "none"
        local == IF caught THEN bound ELSE r.val
        warned == IF caught THEN <<"failed">> ELSE <<>>
    IN IF local.kind = "unbound"
       THEN [out_path |-> local, printed |-> warned, pc |-> "crashed"]
       ELSE [out_path |-> local,
             printed |-> warned \o <<IF local.kind = "none" THEN "skipped" ELSE "rendered">>,
             pc |-> "loop"]

\* One turn of render_passport.main's loop.
PassportStep ==
    /\ mode \in {"render", "batch"}
    /\ driver = "passport"
    /\ pc = "loop"
    /\ pos < Len(batch)
    /\ LET r == render_passport_html(batch[pos + 1], cfg, tmpl, files, today)
           a == PassportAfterCall(r, out_path)
       IN /\ last' = r
          /\ files' = r.files
          /\ cfgloads' = cfgloads + r.loads
          /\ results' = Append(results, StatusOf(r))
          /\ out_path' = a.out_path
          /\ log' = log \o [k \in 1..Len(a.printed) |-> Line(pos + 1, a.printed[k])]
          /\ pc' = a.pc
    /\ pos' = pos + 1
    /\ UNCHANGED <<mode, rvars, gvars, today, driver, batch, cfg, tmpl>>

\* The input file is exhausted: main returns.
Finish ==
    /\ mode \in {"render", "batch"}
    /\ pc = "loop"
    /\ pos = Len(batch)
    /\ pc' = "done"
    /\ UNCHANGED <<mode, rvars, gvars, today, driver, batch, cfg, tmpl, files, pos,
                   out_path, log, results, last, cfgloads>>

NextBatch == NricStep \/ PassportStep \/ Finish

---------------------------------------------------------------------------
(* Keys and customer ids *)

K(w) == <<w>>

IdOf(j) == <<"c">> \o Pad(j, 1)

---------------------------------------------------------------------------
(* Record Generator: random_dob, age_from_dob, weighted_choice, gen_customer *)

IntVal(n) == [kind |-> "int", val |-> n]

\* date.toordinal(): days since 0001-01-01, that day being 1.
DaysBeforeYear(y) == (y - 1) * 365 + (y - 1) \div 4 - (y - 1) \div 100 + (y - 1) \div 400

RECURSIVE DaysBeforeMonth(_, _)
DaysBeforeMonth(y, m) ==
    IF m = 1 THEN 0 ELSE DaysBeforeMonth(y, m - 1) + DaysInMonth(y, m - 1)

ToOrdinal(d) == DaysBeforeYear(d[1]) + DaysBeforeMonth(d[1], d[2]) + d[3]

\* date.fromordinal(n)
FromOrdinal(n) ==
    LET y == CHOOSE yy \in (n \div 366)..(n \div 365 + 1) :
                 DaysBeforeYear(yy) < n /\ n <= DaysBeforeYear(yy + 1)
        r == n - DaysBeforeYear(y)
        m == CHOOSE mm \in 1..12 :
                 DaysBeforeMonth(y, mm) < r /\ r <= DaysBeforeMonth(y, mm) + DaysInMonth(y, mm)
    IN <<y, m, r - DaysBeforeMonth(y, m)>>

\* d.replace(year=y): ValueError when the day does not exist in that year.
ReplaceYear(d, y) ==
    IF ValidDate(y, d[2], d[3]) THEN Ret(<<y, d[2], d[3]>>) ELSE Raise("ValueError")

\* The DOB range random_dob draws from: [earliest_dob, latest_dob] as
\* ordinals, or the ValueError of today.replace.
DobRange(age_min, age_max, now) ==
    LET latest_dob == ReplaceYear(now, now[1] - age_min)
        shifted == ReplaceYear(now, now[1] - age_max)
    IN IF latest_dob.exc # "none" \/ shifted.exc # "none" THEN Raise("ValueError")
       ELSE Ret([earliest |-> ToOrdinal(shifted.val) - 365,
                 latest |-> ToOrdinal(latest_dob.val)])

\* random_dob with random.randint(0, span_days) having returned draw.
random_dob(age_min, age_max, now, draw) ==
    LET range == DobRange(age_min, age_max, now)
    IN IF range.exc # "none" THEN range
       ELSE Ret(FromOrdinal(range.val.earliest + draw))

age_from_dob(dob, now) ==
    LET years == now[1] - dob[1]
    IN IF now[2] < dob[2] \/ (now[2] = dob[2] /\ now[3] < dob[3])
       THEN years - 1 ELSE years

\* Weights are held in hundredths: 0.60 is 60.
DEFAULT_EMPLOY_DIST ==
    (K("Full-time") :> 60) @@ (K("Part-time") :> 10) @@ (K("Self-employed") :> 10)
    @@ (K("Unemployed") :> 5) @@ (K("Retired") :> 10) @@ (K("Student") :> 5)

Max(a, b) == IF a >= b THEN a ELSE b

RECURSIVE SumOver(_, _)
SumOver(f, S) ==
    IF S = {} THEN 0
    ELSE LET k == CHOOSE x \in S : TRUE IN f[k] + SumOver(f, S \ {k})

\* {k: max(0.0, v) / total for k, v in emp_dist.items()}, each weight held
\* as the fraction <<numerator, denominator>>; total is the sum or 1.0.
Normalised(emp_dist) ==
    LET clipped == [k \in DOMAIN emp_dist |-> Max(0, emp_dist[k])]
        sum == SumOver(clipped, DOMAIN emp_dist)
        total == IF sum = 0 THEN 100 ELSE sum
    IN [k \in DOMAIN emp_dist |-> <<clipped[k], total>>]

\* weighted_choice with random.choices having drawn pick.  An empty mapping
\* fails to unpack; a zero weight is never drawn while some weight is
\* positive.  When the weights sum to zero the outcome depends on the
\* interpreter the program runs on: random.choices raises ValueError from
\* Python 3.9 on, and returns an item of the population before (legacy).
weighted_choice(weights, pick, legacy) ==
    IF DOMAIN weights = {} THEN Raise("ValueError")
    ELSE IF (\A k \in DOMAIN weights : weights[k][1] <= 0) /\ ~legacy
         THEN Raise("ValueError")
    ELSE Ret(Str(pick))

\* The picks random.choices can return.
CanPick(weights, pick) ==
    pick \in DOMAIN weights
        /\ ((\E k \in DOMAIN weights : weights[k][1] > 0) => weights[pick][1] > 0)

AdultAge == 18

\* A plausible slip: financials from the nineteenth year on.
IsAdultStrict(age) == age > AdultAge

\* age >= 18
IsAdult(age) == age >= AdultAge

\* gen_customer with its random draws, the schema validator's verdict and
\* the interpreter's generation as arguments.  Names, address, city, gender and the income amounts take no
\* part in any decision and are left out of the record.
gen_customer(cons, now, draw, have_passport, pick, schema_ok, legacy) ==
    LET min_age == cons.min_age
        max_age == cons.max_age
        country == IF cons.country.kind = "str" THEN cons.country ELSE Str(K("GB"))
        nationality == country
        dob == random_dob(min_age, max_age, now, draw)
        age == age_from_dob(dob.val, now)
        personal_details ==
            Dict((K("nationality") :> nationality)
                 @@ (K("date_of_birth") :> Str(IsoFormat(dob.val))))
        demographics == Dict((K("age") :> IntVal(age)) @@ (K("country") :> country))
        base == (K("customer_id") :> Str(IdOf(1)))
                @@ (K("personal_details") :> personal_details)
                @@ (K("demographics") :> demographics)
        nric == IF country = Str(K("SG"))
                THEN K("nric") :> Dict((K("nric_number") :> Str(K("S1234567A")))
                                       @@ (K("nationality") :> nationality))
                ELSE <<>>
        passport == IF have_passport
                    THEN K("passport") :> Dict((K("passport_number") :> Str(K("AB1234567")))
                                               @@ (K("nationality") :> nationality)
                                               @@ (K("issuing_country") :> country))
                    ELSE <<>>
        id_documents == nric @@ passport
        with_docs == IF DOMAIN id_documents # {}
                     THEN base @@ (K("id_documents") :> Dict(id_documents)) ELSE base
        emp_dist == Normalised(IF cons.employment_distribution.kind = "dict"
                               THEN cons.employment_distribution.val
                               ELSE DEFAULT_EMPLOY_DIST)
        emp_type == weighted_choice(emp_dist, pick, legacy)
        currency == IF country = Str(K("SG")) THEN Str(K("SGD")) ELSE Str(K("USD"))
        financials == Dict((K("employment_type") :> emp_type.val)
                           @@ (K("currency") :> currency))
    IN IF dob.exc # "none" THEN Raise(dob.exc)
       ELSE IF IsAdult(age) /\ emp_type.exc # "none" THEN Raise(emp_type.exc)
       ELSE IF ~schema_ok THEN Raise("ValueError")
       ELSE Ret(Dict(IF IsAdult(age)
                     THEN with_docs @@ (K("financials") :> financials)
                     ELSE with_docs))

---------------------------------------------------------------------------
(* The generator's inputs *)

MaxAgeBound == 18

\* Configured ages around the age of majority.
Ages == (AdultAge - 1)..MaxAgeBound

\* An ordinary day, a leap day, and the last of February a year later.
GenDays == {<<2026, 11, 2>>, <<2024, 2, 29>>, <<2025, 2, 28>>}

\* No override, a negative weight beside a positive one, every weight zero,
\* and a lone negative weight.
EmployDists ==
    {Absent,
     Dict((K("Retired") :> 2) @@ (K("Student") :> -1)),
     Dict((K("Full-time") :> 0) @@ (K("Student") :> 0)),
     Dict(K("Retired") :> -1)}

Constraints(min_age, max_age, country, dist) ==
    [min_age |-> min_age, max_age |-> max_age, country |-> country,
     employment_distribution |-> dist]

GIdle ==
    /\ constraints = Constraints(0, 90, Absent, Absent)
    /\ record = NotRun

---------------------------------------------------------------------------
(* The renderers' inputs: records, Rendering Configs, templates *)

MaxFields == 2
MaxBatch == 3

ExpiryGood == <<"2", "0", "3", "2", "-", "0", "2", "-", "2", "9">>
ExpiryBad == <<"2", "0", "3", "0", "-", "0", "2", "-", "2", "9">>

\* A customer record as gen_customer lays it out.  docs says what it holds
\* under id_documents: "noid" (no such key), "nopass" (an NRIC only),
\* "emptypass" (an empty passport) or "pass".
MkCustomer(id, nat, country, named, docs, expiry) ==
    LET pd0 == K("nationality") :> Str(K(nat))
        pd == IF named THEN pd0 @@ (K("name") :> Str(K("Ann"))) ELSE pd0
        base == (K("customer_id") :> Str(id))
                @@ (K("personal_details") :> Dict(pd))
                @@ (K("demographics") :> Dict(K("country") :> Str(K(country))))
        nric == Dict(K("nric_number") :> Str(K("S1234567A")))
        passport == Dict((K("passport_number") :> Str(K("AB1234567")))
                         @@ (K("nationality") :> Str(K(nat)))
                         @@ (K("expiry_date") :> Str(expiry)))
        idd == IF docs = "nopass" THEN Dict(K("nric") :> nric)
               ELSE IF docs = "emptypass" THEN Dict(K("passport") :> Dict(<<>>))
               ELSE Dict((K("nric") :> nric) @@ (K("passport") :> passport))
    IN Dict(IF docs = "noid" THEN base ELSE base @@ (K("id_documents") :> idd))

NatCountry == {<<"SG", "SG">>, <<"MY", "SG">>, <<"FR", "MY">>}

RenderCustomers ==
    {MkCustomer(IdOf(1), nc[1], nc[2], named, "pass", e) :
        nc \in NatCountry, named \in BOOLEAN, e \in {ExpiryGood, ExpiryBad}}
    \cup {MkCustomer(IdOf(1), nc[1], nc[2], named, docs, ExpiryGood) :
            nc \in NatCountry, named \in BOOLEAN, docs \in {"noid", "nopass", "emptypass"}}

Decl(key, source, format) == [key |-> K(key), source |-> source, format |-> format]

DateFormat == Str(<<"date:", " ", "%d", ".", "%m", ".", "%Y">>)

DeclNationality == Decl("nationality", Str(<<"/", "personal_details", "/", "nationality">>), NoneVal)
DeclName == Decl("name", Str(<<"/", "personal_details", "/", "name">>), NoneVal)
DeclCountry == Decl("country", Str(<<"/", "demographics", "/", "country">>), NoneVal)
DeclExpiry ==
    Decl("expiry", Str(<<"/", "id_documents", "/", "passport", "/", "expiry_date">>), DateFormat)
DeclToday == Decl("issued", Str(<<"func:", "today">>), DateFormat)
DeclUnknownFunc == Decl("issued", Str(<<"func:", "now">>), NoneVal)
DeclUnsupported == Decl("name", Str(<<"personal_details", "/", "name">>), NoneVal)
DeclNoSource == Decl("name", NoneVal, NoneVal)
DeclMapping == Decl("nationality", Str(<<"/", "personal_details">>), NoneVal)

DeclPool == {DeclNationality, DeclName, DeclCountry, DeclExpiry, DeclToday,
             DeclUnknownFunc, DeclUnsupported, DeclNoSource, DeclMapping}

DeclLists == UNION {[1..n -> DeclPool] : n \in 0..MaxFields}

Generic == K("generic.html")

Config(template, fields) == [template |-> template, fields |-> fields]

RenderConfigs ==
    {Config(Str(Generic), List(ds)) : ds \in DeclLists}
    \cup {Config(Absent, List(<<DeclNationality>>)), Config(Str(Generic), Absent)}

BatchConfigs ==
    {Config(Str(Generic), List(<<DeclNationality, DeclName>>)),
     Config(Absent, List(<<DeclNationality, DeclName>>)),
     Config(Str(Generic), Absent)}

PassportSG == <<"passport_", "SG", ".html">>
PassportMY == <<"passport_", "MY", ".html">>

\* Templates roots: empty, the generic template alone, with passport_SG.html
\* beside it, the two passport templates without the generic one, and a
\* root whose passport_SG.html does not parse.
TemplateStores ==
    {<<>>,
     Generic :> "ok",
     (Generic :> "ok") @@ (PassportSG :> "ok"),
     (PassportSG :> "ok") @@ (PassportMY :> "ok"),
     (Generic :> "ok") @@ (PassportSG :> "broken")}

BatchKinds == {<<TRUE, "pass">>, <<FALSE, "pass">>, <<TRUE, "noid">>, <<FALSE, "emptypass">>}

Batches ==
    {[j \in 1..Len(ks) |-> MkCustomer(IdOf(j), "SG", "SG", ks[j][1], ks[j][2], ExpiryGood)] :
        ks \in UNION {[1..n -> BatchKinds] : n \in 0..MaxBatch}}

RenderDay == <<2026, 11, 2>>

BStart ==
    /\ files = <<>>
    /\ pos = 0
    /\ out_path = Unbound
    /\ log = <<>>
    /\ results = <<>>
    /\ last = NotRun
    /\ cfgloads = 0
    /\ pc = "loop"

BIdle ==
    /\ driver = "none"
    /\ batch = <<>>
    /\ cfg = Config(Absent, Absent)
    /\ tmpl = <<>>
    /\ files = <<>>
    /\ pos = 0
    /\ out_path = Unbound
    /\ log = <<>>
    /\ results = <<>>
    /\ last = NotRun
    /\ cfgloads = 0
    /\ pc = "idle"

\* One record, every Rendering Config and templates root.
InitRender ==
    /\ mode = "render"
    /\ RIdle
    /\ today = RenderDay
    /\ driver \in {"nric", "passport"}
    /\ batch \in {<<c>> : c \in RenderCustomers}
    /\ cfg \in RenderConfigs
    /\ tmpl \in TemplateStores
    /\ BStart
    /\ GIdle

\* A batch of records under a Rendering Config.
InitBatch ==
    /\ mode = "batch"
    /\ RIdle
    /\ today = RenderDay
    /\ driver \in {"nric", "passport"}
    /\ batch \in Batches
    /\ cfg \in BatchConfigs
    /\ tmpl \in {T \in TemplateStores : \A n \in DOMAIN T : T[n] = "ok"}
    /\ BStart
    /\ GIdle

SpecRender == InitRender /\ [][NextBatch]_vars

SpecBatch == InitBatch /\ [][NextBatch]_vars

---------------------------------------------------------------------------
(* The generator on its own *)

InitGen ==
    /\ mode = "gen"
    /\ RIdle
    /\ BIdle
    /\ today \in GenDays
    /\ constraints \in {Constraints(a, b, c, d) :
                           a \in Ages, b \in Ages, c \in {Absent, Str(K("SG"))},
                           d \in EmployDists}
    /\ constraints.min_age <= constraints.max_age
    /\ record = NotRun

\* The draws random.randint(0, span_days) can return.
Draws(cons, now) ==
    LET range == DobRange(cons.min_age, cons.max_age, now)
    IN IF range.exc # "none" THEN {0}
       ELSE 0..(range.val.latest - range.val.earliest)

\* The interpreters a call can tell apart: the interpreter's generation shows
\* only when the weights sum to zero.
Interpreters(weights) ==
    IF \A k \in DOMAIN weights : weights[k][1] <= 0 THEN BOOLEAN ELSE {FALSE}

\* One call of gen_customer.
GenCustomer ==
    /\ mode = "gen"
    /\ record = NotRun
    /\ LET weights == Normalised(IF constraints.employment_distribution.kind = "dict"
                                 THEN constraints.employment_distribution.val
                                 ELSE DEFAULT_EMPLOY_DIST)
       IN \E draw \in Draws(constraints, today), have_passport \in BOOLEAN,
             schema_ok \in BOOLEAN, legacy \in Interpreters(weights),
             pick \in {k \in DOMAIN weights : CanPick(weights, k)} :
             record' = gen_customer(constraints, today, draw, have_passport, pick,
                                    schema_ok, legacy)
    /\ UNCHANGED <<mode, rvars, bvars, today, constraints>>

NextGen == GenCustomer

SpecGen == InitGen /\ [][NextGen]_vars

---------------------------------------------------------------------------
(* The resolver on its own *)

InitResolve ==
    /\ mode = "resolve"
    /\ rdoc \in RDocs
    /\ rptr \in Pointers
    /\ rres = NotRun
    /\ today = RenderDay
    /\ BIdle
    /\ GIdle

Resolve ==
    /\ mode = "resolve"
    /\ rres = NotRun
    /\ rres' = _resolve_pointer(rdoc, rptr)
    /\ UNCHANGED <<mode, rdoc, rptr, today, bvars, gvars>>

NextResolve == Resolve

SpecResolve == InitResolve /\ [][NextResolve]_vars

---------------------------------------------------------------------------
(* Claims about the Path Resolver *)

\* The path /c1/c2/.../cn written out from its components.
RECURSIVE Join(_)
Join(cs) == IF cs = <<>> THEN <<>> ELSE <<"/">> \o Head(cs) \o Join(Tail(cs))

\* Non-empty components holding no separator, and short sequences of them.
Comps == UNION {[1..n -> PtrAtoms \ {"/"}] : n \in 1..2}
CompSeqs == UNION {[1..n -> Comps] : n \in 1..(MaxPtrLen \div 2)}

\* R[c1][c2]...[cn]: defined when every component exists in a mapping.
RECURSIVE Follow(_, _)
Follow(v, cs) ==
    IF cs = <<>> THEN Ret(v)
    ELSE IF v.kind = "dict" /\ Head(cs) \in DOMAIN v.val
         THEN Follow(v.val[Head(cs)], Tail(cs))
         ELSE Raise("KeyError")

\* C4: for a path /c1/.../cn of non-empty components, _resolve_pointer
\* returns exactly R[c1]...[cn] when every component exists and every
\* intermediate value is a mapping, and raises KeyError otherwise; it never
\* returns a partial, parent or default value.
C4_PathResolverResult ==
    (mode = "resolve" /\ rres # NotRun) =>
        \A cs \in CompSeqs : Join(cs) = rptr => rres = Follow(rdoc, cs)

\* A two-component path that resolved to the nested value.
C4_Witness ==
    /\ mode = "resolve"
    /\ rres.exc = "none"
    /\ \E cs \in CompSeqs : Len(cs) = 2 /\ Join(cs) = rptr

\* A path with an empty component: the bare "/", a trailing "/", a doubled "//".
HasEmptyComponent(p) ==
    /\ p # <<>>
    /\ p[1] = "/"
    /\ \/ Len(p) = 1
       \/ p[Len(p)] = "/"
       \/ \E i \in 1..(Len(p) - 1) : p[i] = "/" /\ p[i + 1] = "/"

\* C5: an empty path or one not beginning with "/" raises the invalid-path
\* error (ValueError, not KeyError), and a path with an empty component is
\* rejected with an error on every record.
C5_RejectsOutsideGrammar ==
    (mode = "resolve" /\ rres # NotRun) =>
        /\ (rptr = <<>> \/ rptr[1] # "/") => rres.exc = "ValueError"
        /\ HasEmptyComponent(rptr) => rres.exc # "none"

---------------------------------------------------------------------------
(* Claims about the batch drivers *)

WellFormed(c) == c.template.kind = "str" /\ c.fields.kind = "list"

\* What rendering record j of the batch does, taken on its own.
Rendering(j) ==
    IF driver = "nric" THEN render_nric_html(batch[j], cfg, tmpl, <<>>, today)
    ELSE render_passport_html(batch[j], cfg, tmpl, <<>>, today)

\* Exactly one record of the batch fails, on a path that does not resolve.
OneResolutionFailure ==
    /\ WellFormed(cfg)
    /\ \E k \in 1..Len(batch) :
        /\ Rendering(k).exc = "KeyError"
        /\ \A j \in (1..Len(batch)) \ {k} : Rendering(j).exc = "none"

Count(seq, S) == Cardinality({k \in 1..Len(seq) : seq[k] \in S})

\* C1: when one record of a batch of N fails resolution and every other
\* record renders or is skipped, the run of either driver ends with all N
\* records attempted, no exception escaping main, N-1 successes or skips
\* and exactly one failure.
C1_BatchFailureIsolation ==
    (mode = "batch" /\ pc \in {"done", "crashed"} /\ OneResolutionFailure) =>
        /\ pc = "done"
        /\ Len(results) = Len(batch)
        /\ Count(results, {"failed"}) = 1
        /\ Count(results, {"rendered", "skipped"}) = Len(batch) - 1

\* The statuses the driver printed for record j, in order.
Printed(j) ==
    LET lines == SelectSeq(log, LAMBDA l : l.rec = j)
    IN [k \in 1..Len(lines) |-> lines[k].status]

\* C2: the passport driver reports exactly one status for every record it
\* has processed, and that status is the record's own outcome.
C2_PerRecordStatus ==
    (mode = "batch" /\ driver = "passport") =>
        \A j \in 1..Len(results) : Printed(j) = <<results[j]>>

Malformed(c) == c.template.kind = "absent" \/ c.fields.kind = "absent"

\* C3: the Rendering Config is read once per run, and a malformed one
\* aborts the run: no record is reported as an isolated failure and the
\* loop does not go on.
C3_MalformedConfigAbortsRun ==
    mode = "batch" =>
        /\ cfgloads <= 1
        /\ (Malformed(cfg) /\ cfgloads >= 1) =>
               (pc = "crashed" /\ Count(results, {"failed"}) = 0)

---------------------------------------------------------------------------
(* Claims about one render call: field mapper, template selector, skip *)

\* The record and the declarations of the single call of SpecRender.
TheCustomer == batch[1]
TheDecls == cfg.fields.val

\* The call has been made, and it reached the field mapper.
Mapped ==
    /\ mode = "render"
    /\ pos = 1
    /\ WellFormed(cfg)
    /\ driver = "passport" => HasPassport(TheCustomer)

\* The three fatal declarations the claim names, read off the declaration.
UnknownFunc(d) ==
    d.source.kind = "str" /\ StartsWith(d.source.val, <<"func:">>)
        /\ Tail(d.source.val) # <<"today">>
Unsupported(d) ==
    d.source.kind = "str" /\ ~StartsWith(d.source.val, <<"/">>)
        /\ ~StartsWith(d.source.val, <<"func:">>)
Unresolvable(c, d) ==
    d.source.kind = "str" /\ StartsWith(d.source.val, <<"/">>)
        /\ _resolve_pointer(c, d.source.val).exc # "none"
Fatal(c, d) == Unresolvable(c, d) \/ UnknownFunc(d) \/ Unsupported(d)

\* A declaration that has no source at all fails too (on None.startswith).
NoSource(d) == d.source.kind # "str"

\* A date format on a string that is no ISO date: the formatting failure.
FormatFails(c, d) ==
    /\ d.source.kind = "str" /\ StartsWith(d.source.val, <<"/">>)
    /\ d.format.kind = "str" /\ StartsWith(d.format.val, <<"date:">>)
    /\ LET v == _resolve_pointer(c, d.source.val)
       IN v.exc = "none" /\ v.val.kind = "str" /\ ~FromIsoFormat(v.val.val).ok

\* The one document the call wrote.
TheDoc == files[CHOOSE n \in DOMAIN files : TRUE]

\* No later declaration writes the same key.
Final(k) == \A l \in (k + 1)..Len(TheDecls) : TheDecls[l].key # TheDecls[k].key

\* C6: a declaration whose path does not resolve, whose func is unknown or
\* whose source prefix is unsupported aborts the record's render: the error
\* reaches the caller, no template is asked for and no file is written.  A
\* date format that fails does not abort: when no declaration is fatal the
\* mapper reaches the template step, and a document it writes holds every
\* declared key, with the raw value where the format failed.
C6_FieldMapperFailurePolicy ==
    Mapped =>
        /\ (\E k \in 1..Len(TheDecls) : Fatal(TheCustomer, TheDecls[k])) =>
               /\ last.exc \in {"KeyError", "ValueError", "AttributeError"}
               /\ last.tried = <<>>
               /\ files = <<>>
        /\ (\A k \in 1..Len(TheDecls) :
                ~Fatal(TheCustomer, TheDecls[k]) /\ ~NoSource(TheDecls[k])) =>
               /\ last.exc \notin {"KeyError", "ValueError", "AttributeError"}
               /\ last.exc = "none" =>
                      \A k \in 1..Len(TheDecls) :
                          /\ TheDecls[k].key \in DOMAIN TheDoc.fields
                          /\ (FormatFails(TheCustomer, TheDecls[k]) /\ Final(k)) =>
                                 TheDoc.fields[TheDecls[k].key]
                                     = _resolve_pointer(TheCustomer, TheDecls[k].source.val).val

\* A document written although the expiry date's format failed, the raw
\* date in its context and the declaration after it evaluated.
C6_Witness ==
    /\ Mapped
    /\ TheDecls = <<DeclExpiry, DeclNationality>>
    /\ FormatFails(TheCustomer, DeclExpiry)
    /\ last.exc = "none"
    /\ files # <<>>
    /\ TheDoc.fields[K("expiry")] = Str(ExpiryBad)
    /\ K("nationality") \in DOMAIN TheDoc.fields

\* The nationality value the selector reads: the context's nationality, else
\* its country, else the record's demographics.country.
NationalityValue ==
    LET ctx == Dict(MapFields(TheCustomer, TheDecls, <<>>, today).fields)
        first == Get(ctx, K("nationality"), NoneVal)
        second == Get(ctx, K("country"), NoneVal)
        third == Get(Get(TheCustomer, K("demographics"), Dict(<<>>)), K("country"), NoneVal)
    IN IF ~Falsy(first) THEN first ELSE IF ~Falsy(second) THEN second ELSE third

Variant ==
    IF NationalityValue.kind = "str"
          /\ NationalityValue.val \in {K("SG"), K("MY"), K("CN"), K("IN")}
    THEN NationalityValue.val ELSE K("SG")

Candidate == <<"passport_">> \o Variant \o <<".html">>

Loads(name) == name \in DOMAIN tmpl /\ tmpl[name] = "ok"

\* The passport renderer reached the template selector.
Selecting ==
    /\ Mapped
    /\ driver = "passport"
    /\ MapFields(TheCustomer, TheDecls, <<>>, today).exc = "none"

\* C7 as stated: the candidate passport_<variant>.html is tried and used
\* when it loads, and when it does not the generic template is used and the
\* fallback does not raise, for every nationality value.
C7_TemplateSelectorAsStated ==
    Selecting =>
        /\ last.tried # <<>> /\ last.tried[1] = Candidate
        /\ Loads(Candidate) => (last.exc = "none" /\ TheDoc.template = Candidate)
        /\ ~Loads(Candidate) => (last.exc = "none" /\ TheDoc.template = Generic)

\* C7, amended: for a nationality value that is a string or None the
\* candidate passport_<variant>.html is tried first and used when it loads;
\* when it does not load the generic template is used without raising if it
\* loads, and otherwise its load error reaches the caller and no file is
\* written.  A nationality value that is a mapping raises TypeError.
C7_TemplateSelector ==
    Selecting =>
        IF NationalityValue.kind \notin {"str", "none"}
        THEN last.exc = "TypeError" /\ files = <<>>
        ELSE /\ last.tried # <<>> /\ last.tried[1] = Candidate
             /\ Loads(Candidate) =>
                    (last.exc = "none" /\ TheDoc.template = Candidate
                        /\ last.tried = <<Candidate>>)
             /\ (~Loads(Candidate) /\ Loads(Generic)) =>
                    (last.exc = "none" /\ TheDoc.template = Generic)
             /\ (~Loads(Candidate) /\ ~Loads(Generic)) =>
                    (last.exc \in {"TemplateNotFound", "TemplateSyntaxError"}
                        /\ files = <<>>)

\* Nationality FR: passport_SG.html was asked for, was missing, and the
\* generic template rendered the document.
C7_Witness ==
    /\ Selecting
    /\ NationalityValue = Str(K("FR"))
    /\ last.tried = <<PassportSG, Generic>>
    /\ last.exc = "none"
    /\ files # <<>>
    /\ TheDoc.template = Generic

\* The record holds no passport: no id_documents, no passport key under it,
\* or an empty passport.
LacksPassport(c) ==
    \/ K("id_documents") \notin DOMAIN c.val
    \/ K("passport") \notin DOMAIN c.val[K("id_documents")].val
    \/ DOMAIN c.val[K("id_documents")].val[K("passport")].val = {}

\* C8: on a record without a passport render_passport_html returns None,
\* raises nothing, reads no template and leaves the output folder as it
\* was, whatever the Rendering Config and the templates are; on a record
\* with a passport it never returns None.
C8_NoDocumentOutcome ==
    [][(driver = "passport" /\ pos' = pos + 1) =>
          IF LacksPassport(batch[pos + 1])
          THEN /\ last'.exc = "none"
               /\ last'.val = NoneVal
               /\ last'.tried = <<>>
               /\ files' = files
          ELSE ~(last'.exc = "none" /\ last'.val = NoneVal)]_vars

\* A record without a passport was skipped after an earlier record's
\* document had been written, and the output folder still holds it.
C8_Witness ==
    /\ mode = "batch"
    /\ driver = "passport"
    /\ pos >= 2
    /\ LacksPassport(batch[pos])
    /\ last.exc = "none" /\ last.val = NoneVal
    /\ files # <<>>

---------------------------------------------------------------------------
(* Claims about the Record Generator *)

\* The record gen_customer returned.
Returned == mode = "gen" /\ record.exc = "none"
RecordAge == record.val.val[K("demographics")].val[K("age")].val

\* C9: every record gen_customer returns has demographics.age within the
\* configured inclusive range [min_age, max_age].
C9_AgeBound ==
    Returned => (constraints.min_age <= RecordAge /\ RecordAge <= constraints.max_age)

\* C10: a record gen_customer returns holds a financials block if and only
\* if its demographics.age is at least 18.
C10_FinancialsForAdultsOnly ==
    Returned => (K("financials") \in DOMAIN record.val.val <=> RecordAge >= 18)

\* A record of age exactly 18, with its financials block.
C10_Witness ==
    /\ Returned
    /\ RecordAge = 18
    /\ K("financials") \in DOMAIN record.val.val

\* The configured employment_distribution holds categories and every
\* weight of it is zero or negative.
AllNonPositive ==
    /\ constraints.employment_distribution.kind = "dict"
    /\ DOMAIN constraints.employment_distribution.val # {}
    /\ \A k \in DOMAIN constraints.employment_distribution.val :
           constraints.employment_distribution.val[k] <= 0

\* The call of gen_customer drew an adult's date of birth.
DrewAdult(draw) ==
    LET dob == random_dob(constraints.min_age, constraints.max_age, today, draw)
    IN dob.exc = "none" /\ IsAdult(age_from_dob(dob.val, today))

\* The record is one an adult's call with an accepted record can leave.
AdultOutcome ==
    \E draw \in Draws(constraints, today), have_passport \in BOOLEAN,
       legacy \in BOOLEAN,
       pick \in DOMAIN constraints.employment_distribution.val :
        /\ DrewAdult(draw)
        /\ record = gen_customer(constraints, today, draw, have_passport, pick,
                                 TRUE, legacy)

\* The call returned a record with a financials block whose employment_type
\* is one of the configured categories.
HasConfiguredEmployment ==
    /\ record.exc = "none"
    /\ K("financials") \in DOMAIN record.val.val
    /\ \E k \in DOMAIN constraints.employment_distribution.val :
           record.val.val[K("financials")].val[K("employment_type")] = Str(k)

\* C11: when every weight of the configured employment_distribution is zero
\* or negative, generating an adult record does not fail: whatever a call
\* that drew an adult's date of birth and whose record the schema accepts
\* left behind is a returned record, and it holds a financials block whose
\* employment_type is one of the configured categories.
C11_AllZeroWeights ==
    (mode = "gen" /\ record # NotRun /\ AllNonPositive) =>
        (HasConfiguredEmployment \/ ~AdultOutcome)

===========================================================================
